---- MODULE Spec2Model ----
(***************************************************************************)
(* Model of scripts/hook-enforcer.py: the hook process that the host       *)
(* spawns for the events pre-tool, post-tool, stop and session-start.      *)
(*                                                                         *)
(* Each hook invocation is one process.  A process walks through main and  *)
(* one handler; every call of the activity tracker (a subprocess) is one   *)
(* step whose outcome is chosen by the environment: the tracker exits     *)
(* with some code and some standard output, or it times out, or it cannot  *)
(* be spawned.  Strings that the code inspects (tool names, file paths)    *)
(* are sequences of characters; strings of which the code only takes the   *)
(* length are represented by that length; message texts are represented    *)
(* by the name of the constant that holds them.                            *)
(*                                                                         *)
(* store is the session state that the tracker keeps.  file_recorded and   *)
(* after_edit are history variables: a file_edit event is on record and no *)
(* session-start has been invoked or has run its init since; and, for each *)
(* process, that this was so when the process was invoked.                 *)
(***************************************************************************)
EXTENDS Integers, Sequences, FiniteSets, TLC

VARIABLES pc, sys_argv, stdin, proc_parent, SESSION_GPPID, store, file_recorded, after_edit,
          calls, passed, files_edited, verdict, stdout, exit_code

vars == <<pc, sys_argv, stdin, proc_parent, SESSION_GPPID, store, file_recorded, after_edit,
          calls, passed, files_edited, verdict, stdout, exit_code>>

\* Hook processes that the host may have in flight.
Procs == {"p1", "p2"}

\* Largest exit code the tracker subprocess is modelled to return.
MaxExitCode == 2

\* ------------------------------------------------------------------------
\* Strings

Contains(sub, s) ==
    \E i \in 1..(Len(s) - Len(sub) + 1) : SubSeq(s, i, i + Len(sub) - 1) = sub

StartsWith(s, prefix) ==
    /\ Len(s) >= Len(prefix)
    /\ SubSeq(s, 1, Len(prefix)) = prefix

FORBIDDEN_MARKER == <<"g", "h", "/", "c", "c", "c", "c", "/", ".", "c", "l", "a", "u", "d", "e">>

MCP_SEQ_PREFIX == <<"m", "c", "p", "_", "_", "s", "e", "q", "u", "e", "n", "t", "i", "a", "l", "-", "t", "h", "i", "n", "k", "i", "n", "g">>

TodoWrite == <<"T", "o", "d", "o", "W", "r", "i", "t", "e">>

EditTool == <<"E", "d", "i", "t">>

WriteTool == <<"W", "r", "i", "t", "e">>

NotebookEdit == <<"N", "o", "t", "e", "b", "o", "o", "k", "E", "d", "i", "t">>

TaskTool == <<"T", "a", "s", "k">>

McpSeqTool == <<"m", "c", "p", "_", "_", "s", "e", "q", "u", "e", "n", "t", "i", "a", "l", "-", "t", "h", "i", "n", "k", "i", "n", "g", "_", "_", "s", "e", "q", "u", "e", "n", "t", "i", "a", "l", "t", "h", "i", "n", "k", "i", "n", "g">>

ReadTool == <<"R", "e", "a", "d">>

McpOtherTool == <<"m", "c", "p", "_", "_", "s", "e", "q", "u", "e", "n", "t", "i", "a", "l">>

PathPlain == <<"s", "r", "c", "/", "a", ".", "p", "y">>

PathForbidden == <<"/", "u", "/", "g", "h", "/", "c", "c", "c", "c", "/", ".", "c", "l", "a", "u", "d", "e", "/", "s">>

PathNearMiss == <<"g", "h", "/", "c", "c", "c", "c", "/", "c", "l", "a", "u", "d", "e", "/", ".", "c">>

\* ------------------------------------------------------------------------
\* Program constants

TOOL_AGENTS ==
    {"serena-agent", "context7-agent", "websearch-agent", "webfetch-agent",
     "sequential-thinking-agent", "github-search-agent", "claude-docs-agent",
     "git-agent", "Explore", "Plan", "general-purpose"}

ADVISORS ==
    {"bash-advisor", "c-advisor", "nix-advisor", "python-advisor",
     "architecture-analyst", "conventions-analyst", "critical-code-reviewer",
     "lint-interpreter", "test-interpreter"}

FILE_EDIT_TOOLS == {EditTool, WriteTool, NotebookEdit}

LARGE_EDIT_CHARS == 500

LARGE_WRITE_CHARS == 2000

MSG_TODO_BEFORE_EDIT == "MSG_TODO_BEFORE_EDIT"

MSG_TOOL_AGENTS_BEFORE_EDIT == "MSG_TOOL_AGENTS_BEFORE_EDIT"

MSG_SEQUENTIAL_BEFORE_TODO == "MSG_SEQUENTIAL_BEFORE_TODO"

MSG_ADVISORS_BEFORE_STOP == "MSG_ADVISORS_BEFORE_STOP"

MSG_REFLECTION_BEFORE_STOP == "MSG_REFLECTION_BEFORE_STOP"

MSG_WARN_LARGE_EDIT == "MSG_WARN_LARGE_EDIT"

MSG_WARN_REPEATED_EDIT == "MSG_WARN_REPEATED_EDIT"

MSG_BLOCK_CCCC_PROJECT_CONFIG == "MSG_BLOCK_CCCC_PROJECT_CONFIG"

\* ------------------------------------------------------------------------
\* Inputs of one invocation

Program == "hook-enforcer.py"

Commands == {"pre-tool", "post-tool", "stop", "session-start"}

HelpFlags == {"--help", "-h", "help"}

Tools == {TodoWrite, EditTool, WriteTool, NotebookEdit, TaskTool, McpSeqTool,
          MCP_SEQ_PREFIX, McpOtherTool, ReadTool}

Paths == {<<>>, PathPlain, PathForbidden, PathNearMiss}

SubagentTypes == TOOL_AGENTS \cup ADVISORS \cup {"", "docs-reviewer"}

\* The fields a handler reads from the tool input.  A key that is absent
\* reads as the default of dict.get: the empty string (length 0).
EmptyFields ==
    [file_path |-> <<>>, old_string |-> 0, new_string |-> 0, content |-> 0,
     subagent_type |-> ""]

EditLengths == {LARGE_EDIT_CHARS, LARGE_EDIT_CHARS + 1}

WriteLengths == {LARGE_WRITE_CHARS, LARGE_WRITE_CHARS + 1}

FieldsFor(tool) ==
    IF tool = EditTool THEN
        {[EmptyFields EXCEPT !.file_path = f, !.old_string = o, !.new_string = n] :
            f \in Paths, o \in EditLengths, n \in EditLengths}
    ELSE IF tool = WriteTool THEN
        {[EmptyFields EXCEPT !.file_path = f, !.content = c] :
            f \in Paths, c \in WriteLengths}
    ELSE IF tool = NotebookEdit THEN
        {[EmptyFields EXCEPT !.file_path = f] : f \in Paths}
    ELSE IF tool = TaskTool THEN
        {[EmptyFields EXCEPT !.subagent_type = s] : s \in SubagentTypes}
    ELSE {EmptyFields}

\* Standard input: blank, not JSON, or a JSON object that carries the fields
\* either at top level or nested under the key "tool_input".
StdinFor(tool) ==
    {[kind |-> k, nested |-> FALSE, top |-> EmptyFields, inner |-> EmptyFields] :
        k \in {"blank", "malformed"}}
    \cup {[kind |-> "object", nested |-> FALSE, top |-> f, inner |-> EmptyFields] :
        f \in FieldsFor(tool)}
    \cup {[kind |-> "object", nested |-> TRUE, top |-> EmptyFields, inner |-> f] :
        f \in FieldsFor(tool)}

NoStdin == [kind |-> "blank", nested |-> FALSE, top |-> EmptyFields, inner |-> EmptyFields]

Invocations ==
    {[argv |-> <<Program>>, stdin |-> NoStdin]}
    \cup {[argv |-> <<Program, c>>, stdin |-> NoStdin] :
            c \in Commands \cup HelpFlags \cup {"bogus"}}
    \cup UNION {{[argv |-> <<Program, c, t>>, stdin |-> s] : s \in StdinFor(t)} :
            c \in {"pre-tool", "post-tool"}, t \in Tools}

ObjectStdin(fields) ==
    [kind |-> "object", nested |-> FALSE, top |-> fields, inner |-> EmptyFields]

\* The invocations of one session at work: well-formed events on one file,
\* one agent of each kind, and the plain tools.
SessionInvocations ==
    {[argv |-> <<Program, c>>, stdin |-> NoStdin] : c \in {"stop", "session-start"}}
    \cup {[argv |-> <<Program, c, t>>, stdin |-> ObjectStdin(EmptyFields)] :
            c \in {"pre-tool", "post-tool"}, t \in {TodoWrite, ReadTool}}
    \cup {[argv |-> <<Program, c, EditTool>>,
           stdin |-> ObjectStdin([EmptyFields EXCEPT !.file_path = PathPlain,
                                                     !.old_string = LARGE_EDIT_CHARS,
                                                     !.new_string = LARGE_EDIT_CHARS])] :
            c \in {"pre-tool", "post-tool"}}
    \cup {[argv |-> <<Program, "pre-tool", TaskTool>>,
           stdin |-> ObjectStdin([EmptyFields EXCEPT !.subagent_type = a])] :
            a \in {"git-agent", "python-advisor", "sequential-thinking-agent"}}
    \cup {[argv |-> <<Program, "pre-tool", McpSeqTool>>, stdin |-> ObjectStdin(EmptyFields)]}

\* ------------------------------------------------------------------------
\* The tracker subprocess as seen by subprocess.run

\* What the tracker wrote to standard output.
JsonObject == [valid |-> TRUE, has_files |-> FALSE, files_edited |-> <<>>]

Garbage == [valid |-> FALSE, has_files |-> FALSE, files_edited |-> <<>>]

StateObject(files) == [valid |-> TRUE, has_files |-> TRUE, files_edited |-> files]

TextsOf(op) ==
    IF op = "get"
    THEN {StateObject(<<>>), StateObject(<<PathPlain>>), JsonObject, Garbage}
    ELSE {JsonObject, Garbage}

\* exit: the subprocess ran and returned; timeout: TimeoutExpired;
\* oserror: any other exception of subprocess.run, whose message does or
\* does not contain a character that breaks the JSON literal built from it.
Outcomes(op) ==
    {[kind |-> "exit", code |-> c, text |-> t, msg_breaks_json |-> FALSE] :
        c \in 0..MaxExitCode, t \in TextsOf(op)}
    \cup {[kind |-> "timeout", code |-> 0, text |-> Garbage, msg_breaks_json |-> FALSE]}
    \cup {[kind |-> "oserror", code |-> 0, text |-> Garbage, msg_breaks_json |-> b] :
        b \in BOOLEAN}

\* ------------------------------------------------------------------------
\* The tracker itself: the session state it keeps

\* The tracker is left open: it answers anything and its state is not
\* looked at.
AnyTracker ==
    [modelled |-> FALSE, files_edited |-> {}, tool_agents |-> {}, advisors |-> {},
     sequential_thinking |-> FALSE, todo_created |-> FALSE]

\* The session state after `init`.
FreshSession ==
    [modelled |-> TRUE, files_edited |-> {}, tool_agents |-> {}, advisors |-> {},
     sequential_thinking |-> FALSE, todo_created |-> FALSE]

\* The call reached the tracker and the tracker carried it out.
carried_out(o) == o.kind = "exit" /\ o.code = 0

\* What one tracker operation does to the session state; the operation is
\* applied as a whole or not at all.
tracker_effect(s, op, name, data, o) ==
    IF ~s.modelled \/ ~carried_out(o) THEN s
    ELSE IF op = "init" THEN FreshSession
    ELSE IF op = "track" /\ name = "file_edit"
    THEN [s EXCEPT !.files_edited = @ \cup {data}]
    ELSE IF op = "track" /\ name = "tool_agent"
    THEN [s EXCEPT !.tool_agents = @ \cup {data}]
    ELSE IF op = "track" /\ name = "advisor"
    THEN [s EXCEPT !.advisors = @ \cup {data}]
    ELSE IF op = "track" /\ name = "sequential_thinking"
    THEN [s EXCEPT !.sequential_thinking = TRUE]
    ELSE IF op = "track" /\ name = "todo_created"
    THEN [s EXCEPT !.todo_created = TRUE]
    ELSE s

\* The operation puts a file into the edited-files set.
records_file_edit(s, op, name, o) ==
    s.modelled /\ op = "track" /\ name = "file_edit" /\ carried_out(o)

\* The invocation is a session-start event.
starts_session(argv) == Len(argv) >= 2 /\ argv[2] = "session-start"

RECURSIVE as_list(_)
as_list(set) ==
    IF set = {} THEN <<>>
    ELSE LET x == CHOOSE y \in set : TRUE IN <<x>> \o as_list(set \ {x})

\* The answers of the tracker that keeps the session state: `get` prints
\* the state, a rule passes or fails, any other operation succeeds; or the
\* call times out.
SessionOutcomes(op, s) ==
    {[kind |-> "timeout", code |-> 0, text |-> Garbage, msg_breaks_json |-> FALSE]}
    \cup {[kind |-> "exit", code |-> c,
           text |-> IF op = "get" THEN StateObject(as_list(s.files_edited)) ELSE JsonObject,
           msg_breaks_json |-> FALSE] :
            c \in IF op = "check" THEN {0, 1} ELSE {0}}

\* A timeout or a failure to spawn is reported with exit code 0.
run_tracker_failure_is_zero(o) ==
    IF o.kind = "exit"
    THEN [raised |-> FALSE, exit_code |-> o.code, stdout |-> o.text]
    ELSE [raised |-> FALSE, exit_code |-> 0, stdout |-> JsonObject]

run_tracker(o) ==
    IF o.kind = "exit"
    THEN [raised |-> FALSE, exit_code |-> o.code, stdout |-> o.text]
    ELSE IF o.kind = "timeout"
    THEN [raised |-> FALSE, exit_code |-> 1, stdout |-> JsonObject]
    ELSE [raised |-> FALSE, exit_code |-> 1,
          stdout |-> IF o.msg_breaks_json THEN Garbage ELSE JsonObject]

json_loads(text) == [ok |-> text.valid, value |-> text]

track(o) == [raised |-> run_tracker(o).raised]

check_rule(o) ==
    LET rt == run_tracker(o)
        parsed == json_loads(rt.stdout)
    IN  [raised |-> rt.raised,
         passed |-> rt.exit_code = 0,
         result |-> IF parsed.ok THEN [passed |-> rt.exit_code = 0, parse_failed |-> FALSE]
                    ELSE [passed |-> FALSE, parse_failed |-> TRUE]]

read_stdin_json(text) ==
    IF text.kind = "object" THEN text
    ELSE [kind |-> "object", nested |-> FALSE, top |-> EmptyFields, inner |-> EmptyFields]

unwrap(tool_input) == IF tool_input.nested THEN tool_input.inner ELSE tool_input.top

\* ------------------------------------------------------------------------
\* Decision encoder: the line printed and the exit status

output_block(reason) ==
    [line |-> [fmt |-> "json", body |-> [decision |-> "block", reason |-> reason]],
     code |-> 2]

output_allow ==
    [line |-> [fmt |-> "json", body |-> [decision |-> "approve"]], code |-> 0]

\* The warning leaves with the exit status of a block.
output_warn_exits_2(message) ==
    [line |-> [fmt |-> "json", body |-> [decision |-> "approve", warning |-> message]],
     code |-> 2]

output_warn(message) ==
    [line |-> [fmt |-> "json", body |-> [decision |-> "approve", warning |-> message]],
     code |-> 0]

\* The object is printed and the process leaves with status 0.
print_json_exits_0(body, code) == [line |-> [fmt |-> "json", body |-> body], code |-> 0]

print_json(body, code) == [line |-> [fmt |-> "json", body |-> body], code |-> code]

print_doc(code) == [line |-> [fmt |-> "text", body |-> [text |-> "__doc__"]], code |-> code]

\* sys.exit taken for a call that returns to the statement after it.
sys_exit_returns(following) == following

\* sys.exit never returns: control does not reach the statement that follows.
sys_exit(following) == "exited"

\* ------------------------------------------------------------------------
\* Session identity: the status record of the parent process

DigitChars == <<"0", "1", "2", "3", "4", "5", "6", "7", "8", "9">>

RECURSIVE str(_)
str(n) ==
    IF n < 10 THEN <<DigitChars[n + 1]>>
    ELSE str(n \div 10) \o <<DigitChars[(n % 10) + 1]>>

\* /proc/<pid>/stat as the kernel writes it: pid, the command name in
\* parentheses, the state, then ppid, pgrp, session and further numbers.
\* cut: the record ends after the state; no_name: there is no parenthesis;
\* bad_field: the field after the state is not a number.
stat_text(parent) ==
    IF parent.shape = "no_name" THEN str(parent.pid) \o <<" ", "?">>
    ELSE str(parent.pid) \o <<" ", "(">> \o parent.comm \o <<")", " ", "S">>
         \o (IF parent.shape = "cut" THEN <<>>
             ELSE <<" ">> \o (IF parent.shape = "bad_field" THEN <<"x">> ELSE str(parent.ppid))
                  \o <<" ">> \o str(parent.pgrp) \o <<" ">> \o str(parent.session)
                  \o <<" ", "0", " ", "-", "1", "\n">>)

CommSh == <<"s", "h">>

CommParen == <<"a", ")", " ", "1", " ", "2">>

CommNested == <<"(", "x", ")", " ", "9", " ", "8", " ", "(">>

ParentOf(readable, shape, comm, ppid, pgrp) ==
    [pid |-> 7, readable |-> readable, shape |-> shape, comm |-> comm,
     ppid |-> ppid, pgrp |-> pgrp, session |-> 12]

HealthyParent == ParentOf(TRUE, "full", CommSh, 3, 7)

NoParent == ParentOf(FALSE, "no_name", <<>>, 0, 0)

Parents ==
    {ParentOf(TRUE, "full", c, pp, pg) :
        c \in {CommSh, CommParen, CommNested}, pp \in {3, 45}, pg \in {7, 45, 106}}
    \cup {ParentOf(TRUE, sh, c, 3, 7) :
        sh \in {"cut", "no_name", "bad_field"}, c \in {CommSh, CommParen}}
    \cup {ParentOf(FALSE, "full", CommSh, 3, 7)}

\* os.getppid()
getppid(parent) == parent.pid

\* The first occurrence is taken in place of the last.
rfind_first(s, ch) ==
    LET hits == {i \in 1..Len(s) : s[i] = ch}
    IN  IF hits = {} THEN 0 ELSE CHOOSE i \in hits : \A j \in hits : i <= j

\* str.rfind for one character; 0 stands for Python's -1 (positions count
\* from 1).
rfind(s, ch) ==
    LET hits == {i \in 1..Len(s) : s[i] = ch}
    IN  IF hits = {} THEN 0 ELSE CHOOSE i \in hits : \A j \in hits : j <= i

IsSpace(c) == c \in {" ", "\n", "\t"}

\* str.split(): the maximal runs of characters that are not whitespace.
RECURSIVE split(_)
split(s) ==
    IF s = <<>> THEN <<>>
    ELSE IF IsSpace(Head(s)) THEN split(Tail(s))
    ELSE LET n == CHOOSE k \in 1..Len(s) :
                    /\ \A i \in 1..k : ~IsSpace(s[i])
                    /\ (k = Len(s) \/ IsSpace(s[k + 1]))
         IN  <<SubSeq(s, 1, n)>> \o split(SubSeq(s, n + 1, Len(s)))

RECURSIVE digits_value(_)
digits_value(d) ==
    IF d = <<>> THEN 0
    ELSE 10 * digits_value(SubSeq(d, 1, Len(d) - 1))
         + ((CHOOSE i \in 1..10 : DigitChars[i] = d[Len(d)]) - 1)

IsDigits(d) == d # <<>> /\ \A i \in 1..Len(d) : \E k \in 1..10 : DigitChars[k] = d[i]

\* int(token): a decimal numeral with an optional sign, else ValueError.
int(token) ==
    IF IsDigits(token) THEN [ok |-> TRUE, value |-> digits_value(token)]
    ELSE IF token # <<>> /\ Head(token) \in {"-", "+"} /\ IsDigits(Tail(token))
    THEN [ok |-> TRUE,
          value |-> IF Head(token) = "-" THEN 0 - digits_value(Tail(token))
                    ELSE digits_value(Tail(token))]
    ELSE [ok |-> FALSE, value |-> 0]

\* fields_after_name[1] of the code; positions count from 1 here.
fields_after_name_index == 2

_get_session_gppid(parent) ==
    LET ppid == getppid(parent) IN
    IF ~parent.readable THEN ppid
    ELSE LET content == stat_text(parent)
             last_paren == rfind(content, ")")
         IN  IF last_paren = 0 THEN ppid
             ELSE LET fields_after_name == split(SubSeq(content, last_paren + 1, Len(content)))
                  IN  IF Len(fields_after_name) < fields_after_name_index THEN ppid
                      ELSE IF int(fields_after_name[fields_after_name_index]).ok
                      THEN int(fields_after_name[fields_after_name_index]).value
                      ELSE ppid

\* The outcomes one tracker call can have in the current state.
TrackerOutcomes(op) ==
    IF store.modelled THEN SessionOutcomes(op, store) ELSE Outcomes(op)

\* ------------------------------------------------------------------------
\* State of the processes

Unknown == <<"u", "n", "k", "n", "o", "w", "n">>

Running == -1

Init ==
    /\ pc = [p \in Procs |-> "idle"]
    /\ sys_argv = [p \in Procs |-> <<>>]
    /\ stdin = [p \in Procs |-> NoStdin]
    /\ proc_parent = [p \in Procs |-> NoParent]
    /\ SESSION_GPPID = [p \in Procs |-> 0]
    /\ store = AnyTracker
    /\ file_recorded = FALSE
    /\ after_edit = [p \in Procs |-> FALSE]
    /\ calls = [p \in Procs |-> <<>>]
    /\ passed = [p \in Procs |-> FALSE]
    /\ files_edited = [p \in Procs |-> <<>>]
    /\ verdict = [p \in Procs |-> <<>>]
    /\ stdout = [p \in Procs |-> <<>>]
    /\ exit_code = [p \in Procs |-> Running]

tool_name(p) == sys_argv[p][3]

tool_input(p) == unwrap(read_stdin_json(stdin[p]))

\* Control moves on inside the process; nothing is printed.
Goto(p, label) ==
    /\ pc' = [pc EXCEPT ![p] = label]
    /\ UNCHANGED <<verdict, stdout, exit_code>>

\* print(...) followed by sys.exit(code).
PrintAndExit(p, enc, following) ==
    /\ stdout' = [stdout EXCEPT ![p] = Append(@, enc.line)]
    /\ exit_code' = [exit_code EXCEPT ![p] = enc.code]
    /\ pc' = [pc EXCEPT ![p] = sys_exit(following)]

Block(p, reason, following) ==
    /\ verdict' = [verdict EXCEPT ![p] = Append(@, [kind |-> "Block", message |-> reason])]
    /\ PrintAndExit(p, output_block(reason), following)

Allow(p, following) ==
    /\ verdict' = [verdict EXCEPT ![p] = Append(@, [kind |-> "Allow", message |-> ""])]
    /\ PrintAndExit(p, output_allow, following)

Warn(p, message, following) ==
    /\ verdict' = [verdict EXCEPT ![p] = Append(@, [kind |-> "Warn", message |-> message])]
    /\ PrintAndExit(p, output_warn(message), following)

\* An exception that nothing catches: traceback on stderr, exit status 1.
Crash(p) ==
    /\ pc' = [pc EXCEPT ![p] = "exited"]
    /\ exit_code' = [exit_code EXCEPT ![p] = 1]
    /\ UNCHANGED <<verdict, stdout>>

\* One subprocess call of the tracker is recorded with its outcome.
Record(p, op, name, data, o) ==
    calls' = [calls EXCEPT ![p] =
                Append(@, [op |-> op, name |-> name, data |-> data, outcome |-> o])]

\* passed, _ = check_rule(rule, data); if not passed: output_block(message)
Gate(p, rule, message, next) ==
    \E o \in TrackerOutcomes("check") :
        LET r == check_rule(o) IN
        /\ Record(p, "check", rule, <<>>, o)
        /\ store' = tracker_effect(store, "check", rule, <<>>, o)
        /\ IF r.raised
           THEN Crash(p) /\ UNCHANGED passed
           ELSE /\ passed' = [passed EXCEPT ![p] = r.passed]
                /\ IF ~r.passed THEN Block(p, message, next) ELSE Goto(p, next)
        /\ UNCHANGED <<sys_argv, stdin, proc_parent, SESSION_GPPID, file_recorded, after_edit, files_edited>>

\* track(track_type, data), then the statement that follows
Track(p, track_type, data, next) ==
    \E o \in TrackerOutcomes("track") :
        /\ Record(p, "track", track_type, data, o)
        /\ store' = tracker_effect(store, "track", track_type, data, o)
        /\ file_recorded' = (file_recorded \/ records_file_edit(store, "track", track_type, o))
        /\ UNCHANGED after_edit
        /\ IF track(o).raised THEN Crash(p) ELSE Goto(p, next)
        /\ UNCHANGED <<sys_argv, stdin, proc_parent, SESSION_GPPID, passed, files_edited>>

\* ------------------------------------------------------------------------
\* The host spawns a hook process; the process ends

Invoke(p) ==
    /\ pc[p] = "idle"
    /\ \A q \in Procs \ {p} : pc[q] = "idle"
    /\ \E inv \in Invocations :
        /\ sys_argv' = [sys_argv EXCEPT ![p] = inv.argv]
        /\ stdin' = [stdin EXCEPT ![p] = inv.stdin]
        /\ file_recorded' = (file_recorded /\ ~starts_session(inv.argv))
        /\ after_edit' = IF starts_session(inv.argv)
                         THEN [q \in Procs |-> FALSE]
                         ELSE [after_edit EXCEPT ![p] = file_recorded]
    /\ proc_parent' = [proc_parent EXCEPT ![p] = HealthyParent]
    /\ pc' = [pc EXCEPT ![p] = "load"]
    /\ UNCHANGED <<SESSION_GPPID, store, calls, passed, files_edited, verdict, stdout, exit_code>>

Reap(p) ==
    /\ pc[p] = "exited"
    /\ pc' = [pc EXCEPT ![p] = "idle"]
    /\ sys_argv' = [sys_argv EXCEPT ![p] = <<>>]
    /\ stdin' = [stdin EXCEPT ![p] = NoStdin]
    /\ proc_parent' = [proc_parent EXCEPT ![p] = NoParent]
    /\ SESSION_GPPID' = [SESSION_GPPID EXCEPT ![p] = 0]
    /\ calls' = [calls EXCEPT ![p] = <<>>]
    /\ passed' = [passed EXCEPT ![p] = FALSE]
    /\ files_edited' = [files_edited EXCEPT ![p] = <<>>]
    /\ verdict' = [verdict EXCEPT ![p] = <<>>]
    /\ stdout' = [stdout EXCEPT ![p] = <<>>]
    /\ exit_code' = [exit_code EXCEPT ![p] = Running]
    /\ after_edit' = [after_edit EXCEPT ![p] = FALSE]
    /\ UNCHANGED <<store, file_recorded>>

\* SESSION_GPPID = _get_session_gppid(), when the module is loaded
module_load(p) ==
    /\ pc[p] = "load"
    /\ SESSION_GPPID' = [SESSION_GPPID EXCEPT ![p] = _get_session_gppid(proc_parent[p])]
    /\ pc' = [pc EXCEPT ![p] = "main"]
    /\ UNCHANGED <<sys_argv, stdin, proc_parent, store, file_recorded, after_edit, calls, passed, files_edited,
                   verdict, stdout, exit_code>>

\* ------------------------------------------------------------------------
\* main

main(p) ==
    /\ pc[p] = "main"
    /\ LET argv == sys_argv[p] IN
       IF Len(argv) < 2 THEN
            PrintAndExit(p, print_doc(1), "returned") /\ UNCHANGED verdict
       ELSE IF argv[2] \in HelpFlags THEN
            PrintAndExit(p, print_doc(0), "returned") /\ UNCHANGED verdict
       ELSE IF argv[2] = "pre-tool" THEN
            IF Len(argv) < 3
            THEN PrintAndExit(p, print_json([error |-> "pre-tool requires tool_name argument"], 1),
                              "returned") /\ UNCHANGED verdict
            ELSE Goto(p, "handle_pre_tool")
       ELSE IF argv[2] = "post-tool" THEN
            IF Len(argv) < 3
            THEN PrintAndExit(p, print_json([error |-> "post-tool requires tool_name argument"], 1),
                              "returned") /\ UNCHANGED verdict
            ELSE Goto(p, "handle_post_tool")
       ELSE IF argv[2] = "stop" THEN Goto(p, "handle_stop")
       ELSE IF argv[2] = "session-start" THEN Goto(p, "handle_session_start")
       ELSE PrintAndExit(p, print_json([error |-> "Unknown command"], 1), "returned")
            /\ UNCHANGED verdict
    /\ UNCHANGED <<sys_argv, stdin, proc_parent, SESSION_GPPID, store, file_recorded, after_edit, calls, passed, files_edited>>

\* ------------------------------------------------------------------------
\* handle_pre_tool

\* The prefix is cut short: every name that starts with "mcp__sequential".
FromMcpTest_short_prefix(tool) ==
    IF StartsWith(tool, McpOtherTool) THEN "mcp_track" ELSE "default_allow"

\* Where control goes from `if tool_name.startswith("mcp__sequential-thinking")`.
FromMcpTest(tool) ==
    IF StartsWith(tool, MCP_SEQ_PREFIX) THEN "mcp_track" ELSE "default_allow"

\* The sequential-thinking agent is not told apart from the other agents.
FromSeqAgentTest_never(fields) == "task_allow"

\* Where control goes from `if subagent_type == "sequential-thinking-agent"`.
FromSeqAgentTest(fields) ==
    IF fields.subagent_type = "sequential-thinking-agent" THEN "task_sequential"
    ELSE "task_allow"

\* Where control goes from `if tool_name == "Task"`.
FromTaskTest(tool, fields) ==
    IF tool = TaskTool THEN
        IF fields.subagent_type \in TOOL_AGENTS THEN "task_tool_agent"
        ELSE IF fields.subagent_type \in ADVISORS THEN "task_advisor"
        ELSE FromSeqAgentTest(fields)
    ELSE FromMcpTest(tool)

\* Where control goes from `if tool_name in FILE_EDIT_TOOLS`.
FromFileEditTest(tool, fields) ==
    IF tool \in FILE_EDIT_TOOLS THEN "edit_path_check" ELSE FromTaskTest(tool, fields)

\* Where control goes from `if file_path:` ahead of the repeated-edit check.
FromFilePathTest(fields) ==
    IF fields.file_path # <<>> THEN "edit_repeat_check" ELSE "edit_size_check"

handle_pre_tool(p) ==
    /\ pc[p] = "handle_pre_tool"
    /\ IF tool_name(p) = TodoWrite
       THEN Goto(p, "pre_todo_check")
       ELSE Goto(p, FromFileEditTest(tool_name(p), tool_input(p)))
    /\ UNCHANGED <<sys_argv, stdin, proc_parent, SESSION_GPPID, store, file_recorded, after_edit, calls, passed, files_edited>>

pre_todo_check(p) ==
    /\ pc[p] = "pre_todo_check"
    /\ Gate(p, "sequential_before_todo", MSG_SEQUENTIAL_BEFORE_TODO, "pre_todo_allow")

\* The creation of the plan list is recorded as soon as the gate has passed.
pre_todo_allow_tracks(p) ==
    /\ pc[p] = "pre_todo_allow"
    /\ Track(p, "todo_created", "", "default_allow")

pre_todo_allow(p) ==
    /\ pc[p] = "pre_todo_allow"
    /\ Allow(p, FromFileEditTest(tool_name(p), tool_input(p)))
    /\ UNCHANGED <<sys_argv, stdin, proc_parent, SESSION_GPPID, store, file_recorded, after_edit, calls, passed, files_edited>>

\* The marker is looked for at the start of the path only.
is_forbidden_path_prefix_only(file_path) ==
    file_path # <<>> /\ StartsWith(file_path, FORBIDDEN_MARKER)

is_forbidden_path(file_path) ==
    file_path # <<>> /\ Contains(FORBIDDEN_MARKER, file_path)

edit_path_check(p) ==
    /\ pc[p] = "edit_path_check"
    /\ IF is_forbidden_path(tool_input(p).file_path)
       THEN Block(p, MSG_BLOCK_CCCC_PROJECT_CONFIG, "edit_todo_check")
       ELSE Goto(p, "edit_todo_check")
    /\ UNCHANGED <<sys_argv, stdin, proc_parent, SESSION_GPPID, store, file_recorded, after_edit, calls, passed, files_edited>>

\* The first gate asks for the rule of the second gate.
edit_todo_check_wrong_rule(p) ==
    /\ pc[p] = "edit_todo_check"
    /\ Gate(p, "tool_agents_before_edit", MSG_TOOL_AGENTS_BEFORE_EDIT, "edit_agents_check")

edit_todo_check(p) ==
    /\ pc[p] = "edit_todo_check"
    /\ Gate(p, "todo_before_edit", MSG_TODO_BEFORE_EDIT, "edit_agents_check")

edit_agents_check(p) ==
    /\ pc[p] = "edit_agents_check"
    /\ Gate(p, "tool_agents_before_edit", MSG_TOOL_AGENTS_BEFORE_EDIT,
            FromFilePathTest(tool_input(p)))

\* The repeated-edit warning is noted but control goes on to the size check.
edit_repeat_check_goes_on(p) ==
    /\ pc[p] = "edit_repeat_check"
    /\ \E o \in TrackerOutcomes("check") :
        LET r == check_rule(o) IN
        /\ Record(p, "check", "file_already_edited", tool_input(p).file_path, o)
        /\ store' = tracker_effect(store, "check", "file_already_edited",
                                    tool_input(p).file_path, o)
        /\ passed' = [passed EXCEPT ![p] = r.passed]
        /\ Goto(p, "edit_size_check")
    /\ UNCHANGED <<sys_argv, stdin, proc_parent, SESSION_GPPID, file_recorded, after_edit, files_edited>>

edit_repeat_check(p) ==
    /\ pc[p] = "edit_repeat_check"
    /\ \E o \in TrackerOutcomes("check") :
        LET r == check_rule(o) IN
        /\ Record(p, "check", "file_already_edited", tool_input(p).file_path, o)
        /\ store' = tracker_effect(store, "check", "file_already_edited",
                                    tool_input(p).file_path, o)
        /\ IF r.raised
           THEN Crash(p) /\ UNCHANGED passed
           ELSE /\ passed' = [passed EXCEPT ![p] = r.passed]
                /\ IF r.passed
                   THEN Warn(p, MSG_WARN_REPEATED_EDIT, "edit_size_check")
                   ELSE Goto(p, "edit_size_check")
    /\ UNCHANGED <<sys_argv, stdin, proc_parent, SESSION_GPPID, file_recorded, after_edit, files_edited>>

\* The threshold is compared with >= in place of >.
is_large_edit_inclusive(tool, fields) ==
    /\ tool = EditTool
    /\ (fields.old_string >= LARGE_EDIT_CHARS \/ fields.new_string >= LARGE_EDIT_CHARS)

is_large_edit(tool, fields) ==
    /\ tool = EditTool
    /\ (fields.old_string > LARGE_EDIT_CHARS \/ fields.new_string > LARGE_EDIT_CHARS)

is_large_write(tool, fields) ==
    /\ tool = WriteTool
    /\ fields.content > LARGE_WRITE_CHARS

edit_size_check(p) ==
    /\ pc[p] = "edit_size_check"
    /\ IF is_large_edit(tool_name(p), tool_input(p))
       THEN Warn(p, MSG_WARN_LARGE_EDIT, "edit_allow")
       ELSE IF is_large_write(tool_name(p), tool_input(p))
       THEN Warn(p, MSG_WARN_LARGE_EDIT, "edit_allow")
       ELSE Goto(p, "edit_allow")
    /\ UNCHANGED <<sys_argv, stdin, proc_parent, SESSION_GPPID, store, file_recorded, after_edit, calls, passed, files_edited>>

edit_allow(p) ==
    /\ pc[p] = "edit_allow"
    /\ Allow(p, FromTaskTest(tool_name(p), tool_input(p)))
    /\ UNCHANGED <<sys_argv, stdin, proc_parent, SESSION_GPPID, store, file_recorded, after_edit, calls, passed, files_edited>>

task_tool_agent(p) ==
    /\ pc[p] = "task_tool_agent"
    /\ Track(p, "tool_agent", tool_input(p).subagent_type, FromSeqAgentTest(tool_input(p)))

task_advisor(p) ==
    /\ pc[p] = "task_advisor"
    /\ Track(p, "advisor", tool_input(p).subagent_type, FromSeqAgentTest(tool_input(p)))

task_sequential(p) ==
    /\ pc[p] = "task_sequential"
    /\ Track(p, "sequential_thinking", "", "task_allow")

task_allow(p) ==
    /\ pc[p] = "task_allow"
    /\ Allow(p, FromMcpTest(tool_name(p)))
    /\ UNCHANGED <<sys_argv, stdin, proc_parent, SESSION_GPPID, store, file_recorded, after_edit, calls, passed, files_edited>>

mcp_track(p) ==
    /\ pc[p] = "mcp_track"
    /\ Track(p, "sequential_thinking", "", "mcp_allow")

mcp_allow(p) ==
    /\ pc[p] = "mcp_allow"
    /\ Allow(p, "default_allow")
    /\ UNCHANGED <<sys_argv, stdin, proc_parent, SESSION_GPPID, store, file_recorded, after_edit, calls, passed, files_edited>>

default_allow(p) ==
    /\ pc[p] = "default_allow"
    /\ Allow(p, "returned")
    /\ UNCHANGED <<sys_argv, stdin, proc_parent, SESSION_GPPID, store, file_recorded, after_edit, calls, passed, files_edited>>

\* ------------------------------------------------------------------------
\* handle_post_tool

\* The plan-list tool is not recognised after the call.
FromPostTodoTest_never(tool) == "post_done"

\* Where control goes from `if tool_name == "TodoWrite"` in handle_post_tool.
FromPostTodoTest(tool) == IF tool = TodoWrite THEN "post_todo_created" ELSE "post_done"

handle_post_tool(p) ==
    /\ pc[p] = "handle_post_tool"
    /\ IF tool_name(p) \in FILE_EDIT_TOOLS /\ tool_input(p).file_path # <<>>
       THEN Goto(p, "post_file_edit")
       ELSE Goto(p, FromPostTodoTest(tool_name(p)))
    /\ UNCHANGED <<sys_argv, stdin, proc_parent, SESSION_GPPID, store, file_recorded, after_edit, calls, passed, files_edited>>

post_file_edit(p) ==
    /\ pc[p] = "post_file_edit"
    /\ Track(p, "file_edit", tool_input(p).file_path, FromPostTodoTest(tool_name(p)))

\* The plan list starts the session afresh.
post_todo_created_reinitialises(p) ==
    /\ pc[p] = "post_todo_created"
    /\ \E o \in TrackerOutcomes("init") :
        /\ Record(p, "init", "", <<>>, o)
        /\ store' = tracker_effect(store, "init", "", <<>>, o)
        /\ IF run_tracker(o).raised THEN Crash(p) ELSE Goto(p, "post_done")
        /\ UNCHANGED <<sys_argv, stdin, proc_parent, SESSION_GPPID, file_recorded, after_edit, passed, files_edited>>

post_todo_created(p) ==
    /\ pc[p] = "post_todo_created"
    /\ Track(p, "todo_created", "", "post_done")

post_done(p) ==
    /\ pc[p] = "post_done"
    /\ PrintAndExit(p, print_json([status |-> "tracked"], 0), "returned")
    /\ UNCHANGED <<sys_argv, stdin, proc_parent, SESSION_GPPID, store, file_recorded, after_edit, calls, passed, files_edited, verdict>>

\* ------------------------------------------------------------------------
\* handle_stop

\* state = json.loads(state_output); files_edited = state.get("files_edited", [])
\* An empty list is taken for a state that could not be read.
parse_files_edited_empty_is_unknown(state_output) ==
    LET parsed == json_loads(state_output) IN
    IF ~parsed.ok THEN <<Unknown>>
    ELSE IF parsed.value.has_files /\ parsed.value.files_edited # <<>>
    THEN parsed.value.files_edited
    ELSE <<Unknown>>

parse_files_edited(state_output) ==
    LET parsed == json_loads(state_output) IN
    IF ~parsed.ok THEN <<Unknown>>
    ELSE IF parsed.value.has_files THEN parsed.value.files_edited
    ELSE <<>>

handle_stop(p) ==
    /\ pc[p] = "handle_stop"
    /\ \E o \in TrackerOutcomes("get") :
        LET rt == run_tracker(o)
            files == parse_files_edited(rt.stdout)
        IN
        /\ Record(p, "get", "", <<>>, o)
        /\ store' = tracker_effect(store, "get", "", <<>>, o)
        /\ IF rt.raised
           THEN Crash(p) /\ UNCHANGED files_edited
           ELSE /\ files_edited' = [files_edited EXCEPT ![p] = files]
                /\ IF files = <<>> THEN Allow(p, "returned") ELSE Goto(p, "stop_advisors")
    /\ UNCHANGED <<sys_argv, stdin, proc_parent, SESSION_GPPID, file_recorded, after_edit, passed>>

\* The reflection rule is asked where the advisors rule belongs.
stop_advisors_asks_reflection(p) ==
    /\ pc[p] = "stop_advisors"
    /\ Gate(p, "reflection_before_stop", MSG_REFLECTION_BEFORE_STOP, "stop_reflection")

stop_advisors(p) ==
    /\ pc[p] = "stop_advisors"
    /\ Gate(p, "advisors_before_stop", MSG_ADVISORS_BEFORE_STOP, "stop_reflection")

stop_reflection(p) ==
    /\ pc[p] = "stop_reflection"
    /\ Gate(p, "reflection_before_stop", MSG_REFLECTION_BEFORE_STOP, "stop_allow")

stop_allow(p) ==
    /\ pc[p] = "stop_allow"
    /\ Allow(p, "returned")
    /\ UNCHANGED <<sys_argv, stdin, proc_parent, SESSION_GPPID, store, file_recorded, after_edit, calls, passed, files_edited>>

\* ------------------------------------------------------------------------
\* handle_session_start

\* run_tracker([op]) whose result the caller drops.
Maintain(p, op, next) ==
    \E o \in TrackerOutcomes(op) :
        /\ Record(p, op, "", <<>>, o)
        /\ store' = tracker_effect(store, op, "", <<>>, o)
        /\ file_recorded' = (file_recorded /\ op # "init")
        /\ after_edit' = IF op = "init" THEN [q \in Procs |-> FALSE] ELSE after_edit
        /\ IF run_tracker(o).raised THEN Crash(p) ELSE Goto(p, next)
        /\ UNCHANGED <<sys_argv, stdin, proc_parent, SESSION_GPPID, passed, files_edited>>

handle_session_start(p) ==
    /\ pc[p] = "handle_session_start"
    /\ Maintain(p, "init", "session_cleanup")

session_cleanup(p) ==
    /\ pc[p] = "session_cleanup"
    /\ Maintain(p, "cleanup", "session_done")

session_done(p) ==
    /\ pc[p] = "session_done"
    /\ PrintAndExit(p, print_json([status |-> "initialized"], 0), "returned")
    /\ UNCHANGED <<sys_argv, stdin, proc_parent, SESSION_GPPID, store, file_recorded, after_edit, calls, passed, files_edited, verdict>>

\* ------------------------------------------------------------------------
\* Specification

Next ==
    \E p \in Procs :
        \/ Invoke(p)
        \/ Reap(p)
        \/ module_load(p)
        \/ main(p)
        \/ handle_pre_tool(p)
        \/ pre_todo_check(p)
        \/ pre_todo_allow(p)
        \/ edit_path_check(p)
        \/ edit_todo_check(p)
        \/ edit_agents_check(p)
        \/ edit_repeat_check(p)
        \/ edit_size_check(p)
        \/ edit_allow(p)
        \/ task_tool_agent(p)
        \/ task_advisor(p)
        \/ task_sequential(p)
        \/ task_allow(p)
        \/ mcp_track(p)
        \/ mcp_allow(p)
        \/ default_allow(p)
        \/ handle_post_tool(p)
        \/ post_file_edit(p)
        \/ post_todo_created(p)
        \/ post_done(p)
        \/ handle_stop(p)
        \/ stop_advisors(p)
        \/ stop_reflection(p)
        \/ stop_allow(p)
        \/ handle_session_start(p)
        \/ session_cleanup(p)
        \/ session_done(p)

Spec == Init /\ [][Next]_vars

\* One session with its tracker: the host may spawn a hook while another
\* is still running, and the tracker keeps the session state.
InitSession ==
    /\ pc = [p \in Procs |-> "idle"]
    /\ sys_argv = [p \in Procs |-> <<>>]
    /\ stdin = [p \in Procs |-> NoStdin]
    /\ proc_parent = [p \in Procs |-> NoParent]
    /\ SESSION_GPPID = [p \in Procs |-> 0]
    /\ store = FreshSession
    /\ file_recorded = FALSE
    /\ after_edit = [p \in Procs |-> FALSE]
    /\ calls = [p \in Procs |-> <<>>]
    /\ passed = [p \in Procs |-> FALSE]
    /\ files_edited = [p \in Procs |-> <<>>]
    /\ verdict = [p \in Procs |-> <<>>]
    /\ stdout = [p \in Procs |-> <<>>]
    /\ exit_code = [p \in Procs |-> Running]

InvokeSession(p) ==
    /\ pc[p] = "idle"
    /\ \E inv \in SessionInvocations :
        /\ sys_argv' = [sys_argv EXCEPT ![p] = inv.argv]
        /\ stdin' = [stdin EXCEPT ![p] = inv.stdin]
        /\ file_recorded' = (file_recorded /\ ~starts_session(inv.argv))
        /\ after_edit' = IF starts_session(inv.argv)
                         THEN [q \in Procs |-> FALSE]
                         ELSE [after_edit EXCEPT ![p] = file_recorded]
    /\ proc_parent' = [proc_parent EXCEPT ![p] = HealthyParent]
    /\ pc' = [pc EXCEPT ![p] = "load"]
    /\ UNCHANGED <<SESSION_GPPID, store, calls, passed, files_edited, verdict, stdout, exit_code>>

NextSession ==
    \E p \in Procs :
        \/ InvokeSession(p)
        \/ Reap(p)
        \/ module_load(p)
        \/ main(p)
        \/ handle_pre_tool(p)
        \/ pre_todo_check(p)
        \/ pre_todo_allow(p)
        \/ edit_path_check(p)
        \/ edit_todo_check(p)
        \/ edit_agents_check(p)
        \/ edit_repeat_check(p)
        \/ edit_size_check(p)
        \/ edit_allow(p)
        \/ task_tool_agent(p)
        \/ task_advisor(p)
        \/ task_sequential(p)
        \/ task_allow(p)
        \/ mcp_track(p)
        \/ mcp_allow(p)
        \/ default_allow(p)
        \/ handle_post_tool(p)
        \/ post_file_edit(p)
        \/ post_todo_created(p)
        \/ post_done(p)
        \/ handle_stop(p)
        \/ stop_advisors(p)
        \/ stop_reflection(p)
        \/ stop_allow(p)
        \/ handle_session_start(p)
        \/ session_cleanup(p)
        \/ session_done(p)

SpecSession == InitSession /\ [][NextSession]_vars

\* The resolver alone: a process is about to load the module, under any
\* status record of its parent.
InitResolver ==
    /\ pc = [p \in Procs |-> "load"]
    /\ sys_argv = [p \in Procs |-> <<Program, "stop">>]
    /\ stdin = [p \in Procs |-> NoStdin]
    /\ proc_parent \in [Procs -> Parents]
    /\ SESSION_GPPID = [p \in Procs |-> 0]
    /\ store = AnyTracker
    /\ file_recorded = FALSE
    /\ after_edit = [p \in Procs |-> FALSE]
    /\ calls = [p \in Procs |-> <<>>]
    /\ passed = [p \in Procs |-> FALSE]
    /\ files_edited = [p \in Procs |-> <<>>]
    /\ verdict = [p \in Procs |-> <<>>]
    /\ stdout = [p \in Procs |-> <<>>]
    /\ exit_code = [p \in Procs |-> Running]

NextResolver == \E p \in Procs : module_load(p)

SpecResolver == InitResolver /\ [][NextResolver]_vars

\* ------------------------------------------------------------------------
\* Vocabulary of the properties

Started(p) == pc[p] # "idle"

Exited(p) == pc[p] = "exited"

InHandler(p, event) ==
    /\ Started(p)
    /\ Len(sys_argv[p]) >= 2
    /\ sys_argv[p][2] = event
    /\ (event \in {"pre-tool", "post-tool"} => Len(sys_argv[p]) >= 3)

PreToolFileEdit(p) == InHandler(p, "pre-tool") /\ tool_name(p) \in FILE_EDIT_TOOLS

HasMarker(p) == Contains(FORBIDDEN_MARKER, tool_input(p).file_path)

\* The subprocess ran and returned exit status zero.
ExitedZero(o) == o.kind = "exit" /\ o.code = 0

\* The subprocess ran and what it wrote is not valid JSON.
WroteGarbage(o) == o.kind = "exit" /\ ~o.text.valid

RuleAt(p, i, rule) ==
    /\ Len(calls[p]) >= i
    /\ calls[p][i].op = "check"
    /\ calls[p][i].name = rule

RulePassedAt(p, i, rule) == RuleAt(p, i, rule) /\ ExitedZero(calls[p][i].outcome)

RuleFailedAt(p, i, rule) == RuleAt(p, i, rule) /\ ~ExitedZero(calls[p][i].outcome)

VerdictIs(p, kind, message) == verdict[p] = <<[kind |-> kind, message |-> message]>>

Approved(p) == \E i \in 1..Len(verdict[p]) : verdict[p][i].kind \in {"Allow", "Warn"}

\* ------------------------------------------------------------------------
\* C1: a pre-tool call of a file-edit tool whose file_path contains the
\* forbidden project-config marker ends in Block with the project-config
\* message, whatever the tracker would answer, and no tracker call is issued
\* at any point of that invocation.
C1_ForbiddenPathBlocksFirst ==
    \A p \in Procs :
        (PreToolFileEdit(p) /\ HasMarker(p)) =>
            /\ calls[p] = <<>>
            /\ pc[p] \in {"load", "main", "handle_pre_tool", "edit_path_check", "exited"}
            /\ Exited(p) =>
                /\ VerdictIs(p, "Block", MSG_BLOCK_CCCC_PROJECT_CONFIG)
                /\ exit_code[p] = 2

C1_Witness ==
    \E p \in Procs :
        /\ PreToolFileEdit(p) /\ HasMarker(p) /\ Exited(p)
        /\ tool_input(p).file_path = PathForbidden
        /\ VerdictIs(p, "Block", MSG_BLOCK_CCCC_PROJECT_CONFIG)

\* C2: in a pre-tool call of a file-edit tool with a path that is not
\* forbidden, todo_before_edit is the first tracker call; when it fails the
\* invocation ends in Block with the to-do message and nothing else is
\* queried; tool_agents_before_edit is the second call, made only after
\* todo_before_edit passed, and its failure ends in Block with the
\* tool-agents message; an Allow or Warn needs both rules to have passed.
C2_EditGatesOrdered ==
    \A p \in Procs :
        (PreToolFileEdit(p) /\ ~HasMarker(p)) =>
            /\ Len(calls[p]) >= 1 => RuleAt(p, 1, "todo_before_edit")
            /\ RuleFailedAt(p, 1, "todo_before_edit") =>
                /\ Len(calls[p]) = 1
                /\ Exited(p)
                /\ VerdictIs(p, "Block", MSG_TODO_BEFORE_EDIT)
            /\ Len(calls[p]) >= 2 =>
                /\ RulePassedAt(p, 1, "todo_before_edit")
                /\ RuleAt(p, 2, "tool_agents_before_edit")
            /\ RuleFailedAt(p, 2, "tool_agents_before_edit") =>
                /\ Len(calls[p]) = 2
                /\ Exited(p)
                /\ VerdictIs(p, "Block", MSG_TOOL_AGENTS_BEFORE_EDIT)
            /\ Approved(p) =>
                /\ RulePassedAt(p, 1, "todo_before_edit")
                /\ RulePassedAt(p, 2, "tool_agents_before_edit")

C2_Witness ==
    \E p \in Procs :
        /\ PreToolFileEdit(p) /\ ~HasMarker(p) /\ Exited(p)
        /\ RulePassedAt(p, 1, "todo_before_edit")
        /\ RuleFailedAt(p, 2, "tool_agents_before_edit")
        /\ VerdictIs(p, "Block", MSG_TOOL_AGENTS_BEFORE_EDIT)

\* The first tracker call of a stop invocation, `get`, and its outcome.
StopFetched(p) ==
    /\ InHandler(p, "stop")
    /\ Len(calls[p]) >= 1
    /\ calls[p][1].op = "get"

GetOutcome(p) == calls[p][1].outcome

\* `get` delivered no session state that can be parsed: what it wrote is not
\* valid JSON, or the call timed out, or the subprocess could not be spawned.
GetUnparsable(p) ==
    \/ WroteGarbage(GetOutcome(p))
    \/ GetOutcome(p).kind \in {"timeout", "oserror"}

\* `get` delivered a session state with these edited files.
GetDelivered(p, files) ==
    /\ GetOutcome(p).kind = "exit"
    /\ GetOutcome(p).text = StateObject(files)

BothStopRulesPassed(p) ==
    /\ RulePassedAt(p, 2, "advisors_before_stop")
    /\ RulePassedAt(p, 3, "reflection_before_stop")

\* C3: when `get` delivers no parsable session state (output that is not
\* valid JSON, a timeout, a subprocess that cannot be spawned), stop yields
\* Allow only if advisors_before_stop and reflection_before_stop both passed.
C3_StopFailsClosed ==
    \A p \in Procs :
        (StopFetched(p) /\ GetUnparsable(p) /\ Approved(p)) => BothStopRulesPassed(p)

\* C4: a stop invocation whose `get` delivers a session state with an empty
\* edited-files collection ends in Allow at once; `get` is its only tracker
\* call.
C4_StopEmptyAllows ==
    \A p \in Procs :
        (StopFetched(p) /\ GetDelivered(p, <<>>)) =>
            /\ Exited(p)
            /\ VerdictIs(p, "Allow", "")
            /\ Len(calls[p]) = 1
            /\ exit_code[p] = 0

C4_Witness ==
    \E p \in Procs :
        /\ StopFetched(p) /\ GetDelivered(p, <<>>)
        /\ Exited(p) /\ VerdictIs(p, "Allow", "")

\* C5: a stop invocation whose `get` delivers a non-empty edited-files
\* collection asks advisors_before_stop as its second tracker call and
\* reflection_before_stop as its third, the latter only after the former
\* passed; a failing advisors rule ends in Block with the advisors message
\* and no further call, a failing reflection rule in Block with the
\* reflection message, and the invocation ends in Allow exactly when both
\* passed.
C5_StopGatesOrdered ==
    \A p \in Procs :
        (StopFetched(p) /\ GetDelivered(p, <<PathPlain>>)) =>
            /\ Len(calls[p]) = 1 => pc[p] = "stop_advisors"
            /\ Len(calls[p]) >= 2 => RuleAt(p, 2, "advisors_before_stop")
            /\ RuleFailedAt(p, 2, "advisors_before_stop") =>
                /\ Len(calls[p]) = 2
                /\ Exited(p)
                /\ VerdictIs(p, "Block", MSG_ADVISORS_BEFORE_STOP)
            /\ Len(calls[p]) >= 3 =>
                /\ RulePassedAt(p, 2, "advisors_before_stop")
                /\ RuleAt(p, 3, "reflection_before_stop")
                /\ Len(calls[p]) = 3
            /\ RuleFailedAt(p, 3, "reflection_before_stop") =>
                /\ Exited(p)
                /\ VerdictIs(p, "Block", MSG_REFLECTION_BEFORE_STOP)
            /\ Approved(p) => BothStopRulesPassed(p)
            /\ (Exited(p) /\ BothStopRulesPassed(p)) => VerdictIs(p, "Allow", "")

C5_Witness ==
    \E p \in Procs :
        /\ StopFetched(p) /\ GetDelivered(p, <<PathPlain>>) /\ Exited(p)
        /\ RulePassedAt(p, 2, "advisors_before_stop")
        /\ RuleFailedAt(p, 3, "reflection_before_stop")
        /\ VerdictIs(p, "Block", MSG_REFLECTION_BEFORE_STOP)

\* C6: an invocation leaves with exit status 2 exactly when its verdict is
\* Block; Block prints {"decision": "block", "reason": <message>}; Allow
\* prints {"decision": "approve"} and Warn prints {"decision": "approve",
\* "warning": <message>}, both with exit status 0.
C6_ExitCodeTwoIffBlock ==
    \A p \in Procs :
        Exited(p) =>
            /\ exit_code[p] = 2 <=>
                (\E i \in 1..Len(verdict[p]) : verdict[p][i].kind = "Block")
            /\ \A m \in {MSG_TODO_BEFORE_EDIT, MSG_TOOL_AGENTS_BEFORE_EDIT,
                         MSG_SEQUENTIAL_BEFORE_TODO, MSG_ADVISORS_BEFORE_STOP,
                         MSG_REFLECTION_BEFORE_STOP, MSG_BLOCK_CCCC_PROJECT_CONFIG,
                         MSG_WARN_LARGE_EDIT, MSG_WARN_REPEATED_EDIT} :
                /\ VerdictIs(p, "Block", m) =>
                    stdout[p] = <<[fmt |-> "json",
                                   body |-> [decision |-> "block", reason |-> m]]>>
                /\ VerdictIs(p, "Warn", m) =>
                    /\ stdout[p] = <<[fmt |-> "json",
                                      body |-> [decision |-> "approve", warning |-> m]]>>
                    /\ exit_code[p] = 0
            /\ VerdictIs(p, "Allow", "") =>
                /\ stdout[p] = <<[fmt |-> "json", body |-> [decision |-> "approve"]]>>
                /\ exit_code[p] = 0

C6_Witness ==
    \E p \in Procs :
        /\ Exited(p)
        /\ VerdictIs(p, "Warn", MSG_WARN_LARGE_EDIT)
        /\ exit_code[p] = 0

\* C7: a pre-tool or stop invocation that has written its output has
\* written one line, has decided one verdict and has exited; it ends with
\* exactly one verdict; and from the moment the output is written the
\* invocation issues no tracker call and writes nothing more.
C7_OneVerdictThenExit ==
    /\ [](\A p \in Procs :
            (InHandler(p, "pre-tool") \/ InHandler(p, "stop")) =>
                /\ Len(verdict[p]) <= 1
                /\ Len(stdout[p]) = Len(verdict[p])
                /\ Exited(p) <=> Len(verdict[p]) = 1)
    /\ [][\A p \in Procs :
            ((InHandler(p, "pre-tool") \/ InHandler(p, "stop")) /\ stdout[p] # <<>>) =>
                \/ calls'[p] = calls[p] /\ stdout'[p] = stdout[p] /\ verdict'[p] = verdict[p]
                \/ pc'[p] = "idle"]_vars

C7_Witness ==
    \E p \in Procs :
        /\ InHandler(p, "stop") /\ Exited(p)
        /\ Len(calls[p]) = 3
        /\ Len(verdict[p]) = 1 /\ Len(stdout[p]) = 1

\* The invocation exited after writing exactly one JSON object of the form
\* {"error": <text>}, with exit status 1.
ErrorExit(p) ==
    /\ Exited(p)
    /\ Len(stdout[p]) = 1
    /\ stdout[p][1].fmt = "json"
    /\ DOMAIN stdout[p][1].body = {"error"}
    /\ exit_code[p] = 1

MissingEvent(p) == Started(p) /\ Len(sys_argv[p]) < 2

MissingToolName(p) ==
    /\ Started(p)
    /\ Len(sys_argv[p]) = 2
    /\ sys_argv[p][2] \in {"pre-tool", "post-tool"}

HelpRequested(p) ==
    /\ Started(p)
    /\ Len(sys_argv[p]) >= 2
    /\ sys_argv[p][2] \in HelpFlags

EventNotIn(p, known) ==
    /\ Started(p)
    /\ Len(sys_argv[p]) >= 2
    /\ sys_argv[p][2] \notin known

\* C8 as stated: an invocation without the event argument, a pre-tool or
\* post-tool invocation without tool_name, and an invocation whose event is
\* none of the four events each end with one {"error": <text>} object on
\* standard output and exit status 1.
C8_MalformedInvocationErrors ==
    \A p \in Procs :
        ((MissingEvent(p) \/ MissingToolName(p) \/ EventNotIn(p, Commands))
            /\ pc[p] \notin {"load", "main"}) => ErrorExit(p)

\* C8 as amended: a pre-tool or post-tool invocation without tool_name, and
\* an invocation whose event is neither one of the four events nor a help
\* flag, end with one {"error": <text>} object on standard output and exit
\* status 1; an invocation without the event argument ends with exit status
\* 1 too, but what it writes is the usage text, which is not a JSON object;
\* a help flag writes the usage text and ends with exit status 0.
C8_MalformedInvocationAmended ==
    \A p \in Procs :
        /\ ((MissingToolName(p) \/ EventNotIn(p, Commands \cup HelpFlags))
                /\ pc[p] \notin {"load", "main"}) => ErrorExit(p)
        /\ (MissingEvent(p) /\ pc[p] \notin {"load", "main"}) =>
                /\ Exited(p)
                /\ exit_code[p] = 1
                /\ Len(stdout[p]) = 1
                /\ stdout[p][1].fmt = "text"
        /\ (HelpRequested(p) /\ pc[p] \notin {"load", "main"}) =>
                /\ Exited(p)
                /\ exit_code[p] = 0
                /\ Len(stdout[p]) = 1
                /\ stdout[p][1].fmt = "text"

C8_Witness ==
    \E p \in Procs :
        /\ EventNotIn(p, Commands \cup HelpFlags)
        /\ ErrorExit(p)

LastCall(p) == calls[p][Len(calls[p])]

Tracked(p) == \E i \in 1..Len(calls[p]) : calls[p][i].op = "track"

\* C9: what check_rule returns as `passed` is true exactly when the tracker
\* subprocess ran and exited with status zero, hence false after a timeout
\* and after a failure to spawn; and an invocation that issued a track call
\* ends as if the call had succeeded, whatever its outcome: pre-tool in
\* Allow, post-tool with {"status": "tracked"}, both with exit status 0.
C9_CheckFailsClosedTrackFailsOpen ==
    \A p \in Procs :
        /\ (calls[p] # <<>> /\ LastCall(p).op = "check") =>
                (passed[p] <=> ExitedZero(LastCall(p).outcome))
        /\ (Tracked(p) /\ Exited(p)) =>
                /\ exit_code[p] = 0
                /\ InHandler(p, "pre-tool") => VerdictIs(p, "Allow", "")
                /\ InHandler(p, "post-tool") =>
                        stdout[p] = <<[fmt |-> "json", body |-> [status |-> "tracked"]]>>

C9_Witness ==
    \E p \in Procs :
        /\ calls[p] # <<>>
        /\ LastCall(p).op = "check"
        /\ LastCall(p).outcome.kind = "timeout"
        /\ ~passed[p]
        /\ Exited(p)
        /\ \E i \in 1..Len(verdict[p]) : verdict[p][i].kind = "Block"

GateRules ==
    {"sequential_before_todo", "todo_before_edit", "tool_agents_before_edit",
     "advisors_before_stop", "reflection_before_stop"}

\* C10: a check whose tracker output is not valid JSON returns passed =
\* false whatever the exit code of the subprocess, and an invocation in
\* which a gating rule answered with such output does not approve the
\* action.
C10_UnparsableCheckNeverPasses ==
    \A p \in Procs :
        /\ (calls[p] # <<>> /\ LastCall(p).op = "check"
                /\ WroteGarbage(LastCall(p).outcome)) => ~passed[p]
        /\ \A i \in 1..Len(calls[p]) :
                (calls[p][i].op = "check" /\ calls[p][i].name \in GateRules
                    /\ WroteGarbage(calls[p][i].outcome)) => ~Approved(p)


OtherTool(p) ==
    /\ InHandler(p, "pre-tool")
    /\ tool_name(p) # TodoWrite
    /\ tool_name(p) \notin FILE_EDIT_TOOLS
    /\ tool_name(p) # TaskTool
    /\ ~StartsWith(tool_name(p), MCP_SEQ_PREFIX)

\* C11: a pre-tool call for a tool that is not the plan-list tool, not a
\* file-edit tool, not the sub-agent dispatch tool and whose name does not
\* start with the sequential-thinking prefix ends in Allow with exit status
\* 0 for every input, and at no point of the invocation is a tracker call
\* issued.

C11_OtherToolsAllowedUntracked ==
    \A p \in Procs :
        OtherTool(p) =>
            /\ calls[p] = <<>>
            /\ pc[p] \in {"load", "main", "handle_pre_tool", "default_allow", "exited"}
            /\ Exited(p) => (VerdictIs(p, "Allow", "") /\ exit_code[p] = 0)

C11_Witness ==
    \E p \in Procs :
        /\ OtherTool(p) /\ tool_name(p) = McpOtherTool
        /\ Exited(p) /\ VerdictIs(p, "Allow", "") /\ calls[p] = <<>>


\* Both gates of a file-edit pre-tool call passed.
EditGatesPassed(p) ==
    /\ PreToolFileEdit(p)
    /\ RulePassedAt(p, 1, "todo_before_edit")
    /\ RulePassedAt(p, 2, "tool_agents_before_edit")

\* The repeated-edit advisory was asked and reported "already edited".
RepeatFlagged(p) == RulePassedAt(p, 3, "file_already_edited")

\* The repeated-edit advisory is over without a flag: it was not asked
\* because file_path is empty, or it was asked and did not report.
RepeatNotFlagged(p) ==
    \/ tool_input(p).file_path = <<>>
    \/ RuleFailedAt(p, 3, "file_already_edited")

EitherTextLarge(p) ==
    \/ tool_input(p).old_string > 500
    \/ tool_input(p).new_string > 500

\* C12: an Edit call that passed both gates and is not flagged as a
\* repeated edit ends in Allow without warning when the old and the new
\* text both have at most 500 characters, and in Warn with the large-edit
\* message when either has more than 500.
C12_EditSizeThreshold ==
    \A p \in Procs :
        (EditGatesPassed(p) /\ tool_name(p) = EditTool /\ RepeatNotFlagged(p) /\ Exited(p)) =>
            IF EitherTextLarge(p)
            THEN VerdictIs(p, "Warn", MSG_WARN_LARGE_EDIT)
            ELSE VerdictIs(p, "Allow", "")

C12_Witness ==
    \E p \in Procs :
        /\ EditGatesPassed(p) /\ tool_name(p) = EditTool /\ RepeatNotFlagged(p) /\ Exited(p)
        /\ tool_input(p).old_string = 500
        /\ tool_input(p).new_string = 500
        /\ VerdictIs(p, "Allow", "")

LargeForTool(p) ==
    \/ tool_name(p) = EditTool /\ EitherTextLarge(p)
    \/ tool_name(p) = WriteTool /\ tool_input(p).content > 2000

\* C13 as stated: after both gates passed the verdict is never Block, and
\* when the repeated-edit advisory and the size advisory both fire, the
\* single Warn that is returned carries the large-edit message.
C13_LastAdvisoryWins ==
    \A p \in Procs :
        (EditGatesPassed(p) /\ Exited(p)) =>
            /\ Approved(p)
            /\ (RepeatFlagged(p) /\ LargeForTool(p)) =>
                    VerdictIs(p, "Warn", MSG_WARN_LARGE_EDIT)

\* C13 as amended: after both gates passed the verdict is never Block and
\* is a single Allow or Warn; the repeated-edit advisory comes first and,
\* when it fires, the invocation ends there in Warn with the repeated-edit
\* message, whatever the sizes; the size advisory decides only when the
\* repeated-edit advisory did not fire.
C13_FirstAdvisoryWins ==
    \A p \in Procs :
        (EditGatesPassed(p) /\ Exited(p)) =>
            /\ Approved(p)
            /\ Len(verdict[p]) = 1
            /\ RepeatFlagged(p) => VerdictIs(p, "Warn", MSG_WARN_REPEATED_EDIT)
            /\ (RepeatNotFlagged(p) /\ LargeForTool(p)) =>
                    VerdictIs(p, "Warn", MSG_WARN_LARGE_EDIT)
            /\ (RepeatNotFlagged(p) /\ ~LargeForTool(p)) => VerdictIs(p, "Allow", "")

C13_Witness ==
    \E p \in Procs :
        /\ EditGatesPassed(p) /\ Exited(p)
        /\ RepeatFlagged(p) /\ LargeForTool(p)
        /\ VerdictIs(p, "Warn", MSG_WARN_REPEATED_EDIT)


PreToolTask(p) == InHandler(p, "pre-tool") /\ tool_name(p) = TaskTool

\* The track events of an invocation, in order, each with its type and data.
TrackEvents(p) == [i \in 1..Len(calls[p]) |-> <<calls[p][i].name, calls[p][i].data>>]

OnlyTracks(p) == \A i \in 1..Len(calls[p]) : calls[p][i].op = "track"

\* What a sub-agent dispatch of this type is to track.
TaskEventsFor(type) ==
    (IF type \in {"serena-agent", "context7-agent", "websearch-agent", "webfetch-agent",
                  "sequential-thinking-agent", "github-search-agent", "claude-docs-agent",
                  "git-agent", "Explore", "Plan", "general-purpose"}
     THEN <<(<<"tool_agent", type>>)>>
     ELSE IF type \in {"bash-advisor", "c-advisor", "nix-advisor", "python-advisor",
                       "architecture-analyst", "conventions-analyst",
                       "critical-code-reviewer", "lint-interpreter", "test-interpreter"}
     THEN <<(<<"advisor", type>>)>>
     ELSE <<>>)
    \o (IF type = "sequential-thinking-agent"
        THEN <<(<<"sequential_thinking", "">>)>> ELSE <<>>)

\* C14: a pre-tool call of the sub-agent dispatch tool issues track calls
\* only, never a check; it ends in Allow with exit status 0 whatever the
\* outcomes of those calls; the events it has tracked by then are one
\* tool_agent event iff the sub-agent type is a tool-agent, one advisor
\* event iff it is an advisor (never both, the two sets being disjoint),
\* followed by one sequential_thinking event iff the type is the
\* sequential-thinking agent.
C14_TaskObservesOnly ==
    /\ TOOL_AGENTS \cap ADVISORS = {}
    /\ \A p \in Procs :
        PreToolTask(p) =>
            /\ OnlyTracks(p)
            /\ Exited(p) =>
                /\ VerdictIs(p, "Allow", "")
                /\ exit_code[p] = 0
                /\ TrackEvents(p) = TaskEventsFor(tool_input(p).subagent_type)

C14_Witness ==
    \E p \in Procs :
        /\ PreToolTask(p) /\ Exited(p)
        /\ tool_input(p).subagent_type = "sequential-thinking-agent"
        /\ Len(calls[p]) = 2
        /\ \A i \in 1..2 : ~ExitedZero(calls[p][i].outcome)
        /\ VerdictIs(p, "Allow", "")

\* What a post-tool call for this tool and file_path is to track.
PostEventsFor(tool, file_path) ==
    (IF tool \in {EditTool, WriteTool, NotebookEdit} /\ file_path # <<>>
     THEN <<"file_edit">> ELSE <<>>)
    \o (IF tool = TodoWrite THEN <<"todo_created">> ELSE <<>>)

\* C15: a post-tool call issues track calls only, never a check; for every
\* tool, input and outcome of those calls it ends with {"status": "tracked"}
\* and exit status 0, without a verdict; what it has tracked by then is one
\* file_edit event carrying the path iff the tool is a file-edit tool with a
\* non-empty file_path, and one todo_created event iff the tool is the
\* plan-list tool.
C15_PostToolObservesOnly ==
    \A p \in Procs :
        InHandler(p, "post-tool") =>
            /\ OnlyTracks(p)
            /\ verdict[p] = <<>>
            /\ Exited(p) =>
                /\ stdout[p] = <<[fmt |-> "json", body |-> [status |-> "tracked"]]>>
                /\ exit_code[p] = 0
                /\ [i \in 1..Len(calls[p]) |-> calls[p][i].name]
                        = PostEventsFor(tool_name(p), tool_input(p).file_path)
                /\ \A i \in 1..Len(calls[p]) :
                        calls[p][i].name = "file_edit" =>
                            calls[p][i].data = tool_input(p).file_path

C15_Witness ==
    \E p \in Procs :
        /\ InHandler(p, "post-tool") /\ Exited(p)
        /\ tool_name(p) = EditTool
        /\ tool_input(p).file_path = PathPlain
        /\ Len(calls[p]) = 1
        /\ calls[p][1].outcome.kind = "timeout"
        /\ exit_code[p] = 0


\* The module is loaded and the status record of the parent was complete.
ResolvedFromRecord(p) ==
    /\ pc[p] \notin {"idle", "load"}
    /\ proc_parent[p].readable
    /\ proc_parent[p].shape = "full"

\* C16 as stated: from a complete status record the resolver returns the
\* process-group-ID field of the parent, also when the command name
\* contains a closing parenthesis.
C16_ResolverReturnsProcessGroup ==
    \A p \in Procs : ResolvedFromRecord(p) => SESSION_GPPID[p] = proc_parent[p].pgrp

\* C16 as amended: from a complete status record the resolver returns the
\* parent-process-ID field of the parent (the second field after the last
\* closing parenthesis, the one before the process-group ID), also when the
\* command name contains closing parentheses, spaces and numbers.
C16_ResolverReturnsParentOfParent ==
    \A p \in Procs : ResolvedFromRecord(p) => SESSION_GPPID[p] = proc_parent[p].ppid

C16_Witness ==
    \E p \in Procs :
        /\ ResolvedFromRecord(p)
        /\ proc_parent[p].comm = CommParen
        /\ proc_parent[p].ppid = 45
        /\ proc_parent[p].pgrp = 106
        /\ SESSION_GPPID[p] = 45


\* The handlers that decide whether the host may go on.
Gating(p) ==
    \/ InHandler(p, "pre-tool") /\ tool_name(p) = TodoWrite
    \/ PreToolFileEdit(p)
    \/ InHandler(p, "stop")

ReadOnlyOps == {"check", "get"}

\* C18: pre-tool of the plan-list tool, pre-tool of a file-edit tool and
\* stop issue only check and get operations, never a track, init or
\* cleanup, whatever their verdict and however far they have run.
C18_GatingHandlersReadOnly ==
    \A p \in Procs :
        Gating(p) => \A i \in 1..Len(calls[p]) : calls[p][i].op \in ReadOnlyOps

\* An approved plan-list pre-tool has ended after its one check.
C18_Witness ==
    \E p \in Procs :
        /\ InHandler(p, "pre-tool")
        /\ tool_name(p) = TodoWrite
        /\ Exited(p)
        /\ VerdictIs(p, "Allow", "")
        /\ Len(calls[p]) = 1
        /\ calls[p][1].op = "check"
        /\ calls[p][1].name = "sequential_before_todo"


ResetOps == {"init", "cleanup"}

\* The membership sets of the session keep every member they had.
SetsKept ==
    /\ store.files_edited \subseteq store'.files_edited
    /\ store.tool_agents \subseteq store'.tool_agents
    /\ store.advisors \subseteq store'.advisors

\* The step is the `init` call of a session-start invocation.
SessionStartInit ==
    \E p \in Procs :
        /\ InHandler(p, "session-start")
        /\ pc[p] = "handle_session_start"
        /\ pc'[p] # pc[p]

IssuedReset(p) == \E i \in 1..Len(calls[p]) : calls[p][i].op \in ResetOps

\* C17: under any interleaving of pre-tool, post-tool and stop invocations
\* the edited-files, tool-agent and advisor sets of the session only grow
\* (a step that loses a member is the init call of a session-start), and
\* init and cleanup are issued by session-start and by no other handler.
C17_SetsOnlyGrowWithinSession ==
    /\ [](\A p \in Procs : IssuedReset(p) => InHandler(p, "session-start"))
    /\ [][SetsKept \/ SessionStartInit]_vars

\* All three sets have members while a stop and a post-tool invocation run
\* side by side.
C17_Witness ==
    /\ store.files_edited # {}
    /\ store.tool_agents # {}
    /\ store.advisors # {}
    /\ \E p, q \in Procs :
        /\ InHandler(p, "stop") /\ pc[p] = "stop_advisors"
        /\ InHandler(q, "post-tool") /\ pc[q] = "post_done" /\ Len(calls[q]) = 1


\* The invocation receives its approval in this step.
BecomesApproved(p) == ~Approved(p) /\ Approved(p)'

\* C19: once a post-tool of a file-edit tool has recorded its file_edit
\* event in the session store, and no session-start has been invoked since,
\* a stop invoked later is approved only if advisors_before_stop and
\* reflection_before_stop both passed, under any interleaving with other
\* pre-tool and post-tool invocations.
C19_StopAfterEditNeedsBothRules ==
    [][\A p \in Procs :
        (InHandler(p, "stop") /\ after_edit[p] /\ BecomesApproved(p))
            => BothStopRulesPassed(p)']_vars

====
